---- MODULE Spec2Model ----
(***************************************************************************)
(* Model of the serial sample pipeline of GPIO-Documents:                  *)
(*   - HZanalise.main            : read loop, 4-byte framing with a        *)
(*                                 carry-over buffer, timestamp window,    *)
(*                                 periodic rate line, the ways out of the *)
(*                                 loop;                                   *)
(*   - analisesensordepeso.py    : RealTimePlot (construction, settle      *)
(*                                 filter, framing per read, rolling       *)
(*                                 display buffer, CSV sink with buffered  *)
(*                                 writes, rotation and recovery, error    *)
(*                                 dialog, closeEvent).                    *)
(* Times of HZanalise are in milliseconds, times of RealTimePlot in        *)
(* seconds (the resolution of the CSV file name).                          *)
(***************************************************************************)
EXTENDS Integers, Sequences, FiniteSets, TLC

(***************************************************************************)
(* Bounds of the model (not program constants).                            *)
(***************************************************************************)
\* HZanalise, framing runs: bytes received in one behaviour
MaxStream == 12
\* HZanalise, framing runs: injected struct.error faults in one behaviour
MaxFaults == 1
\* HZanalise, framing runs: clock readings stay below this many milliseconds
MaxClock == 1000
\* HZanalise, rate runs: samples received in one behaviour
MaxRateSamples == 1002

\* RealTimePlot: bytes sent by the device in one behaviour
MaxArrive == 9
\* RealTimePlot: injected I/O faults (write, open, header) in one behaviour
MaxIOFaults == 2
\* RealTimePlot: number of times the clock advances in one behaviour
MaxAdvances == 2
\* RealTimePlot, rolling runs: samples sent by the device beyond buffer_size
MaxOverflow == 2
\* RealTimePlot, dialog runs: samples sent by the device in one behaviour
MaxDialogSamples == 3
\* RealTimePlot, life cycle runs: times the port raises in one behaviour
MaxPortErrors == 1

\* byte values carried by the serial line in the framing runs
Bytes == {0, 255}
\* the clock advances between two readings of time.time() (framing runs)
ClockSteps == {0, 1000}
\* sample periods of the device in the rate runs, in milliseconds
Periods == {0, 100, 1000, 5000}

(***************************************************************************)
(* Program constants.                                                      *)
(***************************************************************************)
SAMPLE_SIZE == 4
window_size == 1000
\* "current_time - last_print >= 1.0", in milliseconds
PRINT_PERIOD == 1000
\* the longest loop iteration that decodes nothing, in milliseconds: ser.read
\* waits TIMEOUT = 0.1 s for a byte, then time.sleep(0.001)
HZ_TIMEOUT == 100
HZ_SLEEP == 1
\* RealTimePlot: settle delay and rotation interval in seconds, display size
initial_delay == 3
file_duration == 1800
buffer_size == 2000
\* RealTimePlot.update_plot reads when ser.in_waiting >= 4 and frames by 4
RT_SAMPLE == 4
\* open(filename, 'w', newline='') buffers what is written: the bytes reach
\* the disk when IO_BUFFER bytes are pending (io.DEFAULT_BUFFER_SIZE) or when
\* the file is closed; a record "%Y-%m-%d %H:%M:%S.%f,<value>" and its line
\* end take at most RECORD_BYTES bytes
IO_BUFFER == 8192
RECORD_BYTES == 40
\* the clock of RealTimePlot advances by one of these (seconds)
ClockJumps == {initial_delay, file_duration}

VARIABLES
    \* ---- HZanalise.main ----
    hz_pc,          \* position in the loop: "read", "drain", "sleep"; "closed"
                    \* once the finally block has run
    hz_ser_open,    \* ser.is_open
    buffer,         \* carry-over bytearray
    sample_count,
    time_window,    \* deque(maxlen = window_size) of timestamps
    last_print,
    value,          \* last decoded value
    hz_clock,       \* last reading of time.time()
    status,         \* the status lines printed so far: <<>> or <<last line>>,
                    \* with the time it was printed at and the time since the
                    \* line before it (history)
    \* history of HZanalise.main (not program state)
    received,       \* every byte returned by ser.read, in order
    decoded,        \* every value decoded, in order
    stamps,         \* every timestamp appended to time_window, in order
    windows,        \* number of 4-byte windows taken from the buffer
    failed,         \* indices of the windows whose decoding raised
    carried,        \* a read has been appended to a non-empty carry-over buffer
    idle,           \* the read of this iteration returned no byte
    period,         \* rate runs: sample period of the device
    hz_exit,        \* "" while in the loop, then "interrupt" or "error"
    \* ---- RealTimePlot ----
    rt_pc,          \* "new" before __init__, then "running", then "closed"
                    \* once closeEvent has run
    ser_open,       \* self.ser exists and is open
    plot_timer,     \* "none" (not created), "active" or "stopped"
    file_timer,     \* "none" (not created), "active" or "stopped"
    rt_clock,       \* time.time() / datetime.now(), in seconds
    start_time,
    ignore_initial_data,
    data,           \* deque(maxlen = buffer_size) of sample values
    time_values,    \* deque(maxlen = buffer_size) of sample indices
    inq,            \* bytes waiting in the serial port (ser.in_waiting = Len)
    csv_file,       \* index in files of the file object held, 0 for None
    csv_writer,     \* index in files of the file the writer writes, 0 for None
    file_start_time,\* <<>> for None, else <<creation time>>
    files,          \* the CSV files on disk, in order of first creation:
                    \* name (creation second), header written, rows written
                    \* by the program, closed, synced (rows that are on disk)
    \* history of RealTimePlot (not program state)
    arrived,        \* number of bytes the device has sent
    inq_early,      \* leading bytes of inq that arrived before the settle delay
    rt_read,        \* every byte read from the port once RUNNING, in order
    pushed,         \* every sample appended to data and passed to save_to_csv
    expected,       \* the complete samples of every read, in reading order
    plotted,        \* <<>> or <<[x, y]>>, the last lists passed to setData
    port_errors,    \* number of times the port raised in update_plot
    late_read,      \* update_plot accessed the port after the port had raised
    reopened,       \* init_csv_file opened a name that had been created before
    tainted,        \* a sample was decoded from a byte that arrived early
    faults,         \* number of I/O faults injected
    recovery_failed,\* a write failed and the file creation after it failed too
    late_attempt,   \* a write or creation was attempted after recovery_failed
    last_check,     \* <<>> or <<time of the last rotation check once RUNNING>>
    advances        \* number of times the clock has advanced

hzvars == <<hz_pc, buffer, sample_count, time_window, last_print, value,
            hz_clock, status, received, decoded, stamps, windows, failed,
            carried, idle, period, hz_ser_open, hz_exit>>

\* RealTimePlot: what update_plot reads and changes besides the sink
plotvars == <<ignore_initial_data, data, time_values, inq, arrived, inq_early,
              rt_read, pushed, expected, plotted, tainted, port_errors,
              late_read>>
\* RealTimePlot: the CSV sink
sinkvars == <<csv_file, csv_writer, file_start_time, files, faults,
              recovery_failed, late_attempt, reopened>>
\* RealTimePlot: what __init__ and closeEvent set
lifevars == <<rt_pc, start_time, ser_open, plot_timer, file_timer>>

rtvars == <<plotvars, sinkvars, lifevars, rt_clock, last_check, advances>>

vars == <<hzvars, rtvars>>

(***************************************************************************)
(* Helpers                                                                 *)
(***************************************************************************)
Min(a, b) == IF a <= b THEN a ELSE b

\* s[a..] the way Python slices: empty when a is past the end
Drop(s, n) == SubSeq(s, n + 1, Len(s))

\* struct.unpack('<i', sample)[0]: little-endian two's complement, 32 bits
Unpack(s) ==
    s[1] + 256 * s[2] + 65536 * s[3]
         + 16777216 * (IF s[4] >= 128 THEN s[4] - 256 ELSE s[4])

\* deque(maxlen = n).append(x): a full deque drops its oldest entry
DequeAppend_NoEvict(q, x, n) == Append(q, x)
DequeAppend(q, x, n) ==
    IF Len(q) >= n THEN Append(Tail(q), x) ELSE Append(q, x)

\* rate = (len(time_window) - 1) / elapsed if elapsed > 0 else 0
\* as the fraction <<numerator, denominator>> in Hz (timestamps in ms)
Rate_Count(tw) ==
    LET elapsed == tw[Len(tw)] - tw[1]
    IN  IF elapsed > 0 THEN <<Len(tw) * 1000, elapsed>> ELSE <<0, 1>>
Rate(tw) ==
    LET elapsed == tw[Len(tw)] - tw[1]
    IN  IF elapsed > 0 THEN <<(Len(tw) - 1) * 1000, elapsed>> ELSE <<0, 1>>

\* buffer.extend(data)
Extend_Replace(buf, chunk) == chunk
Extend(buf, chunk) == buf \o chunk

\* while len(buffer) >= SAMPLE_SIZE
LoopCond_Strict(buf) == Len(buf) > SAMPLE_SIZE
LoopCond(buf) == Len(buf) >= SAMPLE_SIZE

\* buffer = buffer[SAMPLE_SIZE:], executed before the try block, so also when
\* the decoding of the window raises (fail)
AfterWindow_Retry(buf, fail) == IF fail THEN buf ELSE Drop(buf, SAMPLE_SIZE)
AfterWindow_Overlap(buf, fail) == Drop(buf, SAMPLE_SIZE - 1)
AfterWindow(buf, fail) == Drop(buf, SAMPLE_SIZE)

\* the drain loop run to completion on buf: k windows were taken before, bad
\* are the indices of the windows whose decoding raises, out the values so far
RECURSIVE DrainAll(_, _, _, _)
DrainAll(buf, k, bad, out) ==
    IF LoopCond(buf)
    THEN DrainAll(AfterWindow(buf, (k + 1) \in bad), k + 1, bad,
                  IF (k + 1) \in bad
                  THEN out
                  ELSE Append(out, Unpack(SubSeq(buf, 1, SAMPLE_SIZE))))
    ELSE [samples |-> out, rest |-> buf]

\* the whole stream arriving in a single read, on the empty buffer
SingleRead(stream, bad) == DrainAll(Extend(<<>>, stream), 0, bad, <<>>)

(***************************************************************************)
(* HZanalise.main                                                          *)
(***************************************************************************)
HZInit ==
    /\ hz_pc = "read"
    /\ buffer = <<>>
    /\ sample_count = 0
    /\ time_window = <<>>
    /\ last_print = 0
    /\ value = 0
    /\ hz_clock = 0
    /\ status = <<>>
    /\ received = <<>>
    /\ decoded = <<>>
    /\ stamps = <<>>
    /\ windows = 0
    /\ failed = {}
    /\ carried = FALSE
    /\ idle = FALSE
    /\ hz_ser_open = TRUE
    /\ hz_exit = ""

\* data = ser.read(ser.in_waiting or 1); if data: buffer.extend(data)
HZ_Read(chunk) ==
    /\ UNCHANGED rtvars
    /\ hz_pc = "read"
    /\ idle' = (Len(chunk) = 0)
    /\ IF Len(chunk) > 0
       THEN /\ buffer' = Extend(buffer, chunk)
            /\ received' = received \o chunk
            /\ carried' = (carried \/ Len(buffer) > 0)
            /\ hz_pc' = "drain"
       ELSE /\ hz_pc' = "sleep"
            /\ UNCHANGED <<buffer, received, carried>>
    /\ UNCHANGED <<sample_count, time_window, last_print, value, hz_clock,
                   status, decoded, stamps, windows, failed, period,
                   hz_ser_open, hz_exit>>

\* one iteration of "while len(buffer) >= SAMPLE_SIZE"; fail: unpack raises
\* struct.error; dt: time passed since the last reading of the clock
HZ_Decode(fail, dt) ==
    /\ UNCHANGED rtvars
    /\ hz_pc = "drain"
    /\ LoopCond(buffer)
    /\ LET sample == SubSeq(buffer, 1, SAMPLE_SIZE)
           current_time == hz_clock + dt
           tw == DequeAppend(time_window, current_time, window_size)
       IN  /\ buffer' = AfterWindow(buffer, fail)
           /\ windows' = windows + 1
           /\ IF fail
              THEN /\ failed' = failed \cup {windows + 1}
                   /\ UNCHANGED <<sample_count, time_window, last_print, value,
                                  hz_clock, status, decoded, stamps>>
              ELSE /\ value' = Unpack(sample)
                   /\ decoded' = Append(decoded, Unpack(sample))
                   /\ sample_count' = sample_count + 1
                   /\ hz_clock' = current_time
                   /\ time_window' = tw
                   /\ stamps' = Append(stamps, current_time)
                   /\ IF current_time - last_print >= PRINT_PERIOD
                      THEN /\ status' =
                                IF Len(tw) > 1
                                THEN <<[rate |-> Rate(tw),
                                        total |-> sample_count + 1,
                                        value |-> Unpack(sample),
                                        at |-> current_time,
                                        gap |-> IF status = <<>> THEN 0
                                                ELSE current_time - status[1].at]>>
                                ELSE status
                           /\ last_print' = current_time
                      ELSE UNCHANGED <<status, last_print>>
                   /\ UNCHANGED failed
    /\ UNCHANGED <<hz_pc, received, carried, idle, period,
                   hz_ser_open, hz_exit>>

\* the drain loop ends: len(buffer) < SAMPLE_SIZE
HZ_DrainEnd ==
    /\ UNCHANGED rtvars
    /\ hz_pc = "drain"
    /\ ~LoopCond(buffer)
    /\ hz_pc' = "sleep"
    /\ UNCHANGED <<buffer, sample_count, time_window, last_print, value,
                   hz_clock, status, received, decoded, stamps, windows,
                   failed, carried, idle, period,
                   hz_ser_open, hz_exit>>

\* time.sleep(0.001), then the next iteration of "while True"
HZ_Sleep ==
    /\ UNCHANGED rtvars
    /\ hz_pc = "sleep"
    /\ hz_pc' = "read"
    /\ idle' = FALSE
    /\ UNCHANGED <<buffer, sample_count, time_window, last_print, value,
                   hz_clock, status, received, decoded, stamps, windows,
                   failed, carried, period,
                   hz_ser_open, hz_exit>>

\* the ways out of "while True": KeyboardInterrupt (Ctrl+C, anywhere in the
\* loop) and any other exception, here the SerialException of ser.read or
\* ser.in_waiting; after the except clause the finally block closes the port
\* when it is open
HZ_Exit(cause) ==
    /\ UNCHANGED rtvars
    /\ hz_pc # "closed"
    /\ cause = "error" => hz_pc = "read"
    /\ hz_pc' = "closed"
    /\ hz_exit' = cause
    /\ hz_ser_open' = FALSE
    /\ UNCHANGED <<buffer, sample_count, time_window, last_print, value,
                   hz_clock, status, received, decoded, stamps, windows,
                   failed, carried, idle, period>>

(***************************************************************************)
(* RealTimePlot: the CSV sink                                              *)
(***************************************************************************)
\* The sink fields of the object, with their history, as one record
Sink ==
    [csv_file |-> csv_file, csv_writer |-> csv_writer,
     file_start_time |-> file_start_time, files |-> files,
     faults |-> faults, recovery_failed |-> recovery_failed,
     late_attempt |-> late_attempt, reopened |-> reopened, raised |-> FALSE]

\* self.csv_file.close(): the file object held is closed (closing twice is
\* allowed); closing an open file writes its pending records to the disk
CloseHeld(s) ==
    IF s.csv_file # 0
    THEN LET held == s.files[s.csv_file]
         IN  IF held.closed
             THEN s.files
             ELSE [s.files EXCEPT ![s.csv_file] =
                      [held EXCEPT !.closed = TRUE, !.synced = Len(held.rows)]]
    ELSE s.files

\* writerow on an open file: the record is appended to the pending bytes,
\* which are written to the disk once they fill the buffer
WriteRow(file, row) ==
    LET rows == Append(file.rows, row)
    IN  [file EXCEPT !.rows = rows,
                     !.synced = IF (Len(rows) - @) * RECORD_BYTES >= IO_BUFFER
                                THEN Len(rows) ELSE @]

\* init_csv_file at time now.  The name of the file is the time in whole
\* seconds; open(filename, 'w') creates the file or truncates the file of that
\* name.  openFails: open raises; headerFails: writing the header raises.
\* Every exception is caught inside (except Exception), so the call never
\* raises: raised stays FALSE.
InitCsvFile(s, now, openFails, headerFails) ==
    LET closedFiles == CloseHeld(s)
        s0 == [s EXCEPT !.late_attempt = @ \/ s.recovery_failed]
        s1 == [s0 EXCEPT !.files = closedFiles]
        same == {i \in 1..Len(closedFiles) : closedFiles[i].name = now}
        idx == IF same # {} THEN CHOOSE i \in same : TRUE
                            ELSE Len(closedFiles) + 1
        fresh == [name |-> now, header |-> FALSE, rows |-> <<>>,
                  closed |-> FALSE, synced |-> 0]
        opened == IF same # {} THEN [closedFiles EXCEPT ![idx] = fresh]
                               ELSE Append(closedFiles, fresh)
        s2 == [s1 EXCEPT !.files = opened, !.csv_file = idx, !.csv_writer = idx,
                         !.reopened = @ \/ same # {}]
    IN  IF openFails
        THEN [s1 EXCEPT !.faults = @ + 1]
        ELSE IF headerFails
             THEN [s2 EXCEPT !.faults = @ + 1]
             ELSE [s2 EXCEPT !.files[idx].header = TRUE,
                             !.file_start_time = <<now>>]

\* the rotation test of check_file_rotation
RotationDue_Strict(fst, now) == fst # <<>> /\ now - fst[1] > file_duration
RotationDue(fst, now) == fst # <<>> /\ now - fst[1] >= file_duration

(***************************************************************************)
(* RealTimePlot: update_plot                                               *)
(***************************************************************************)
\* byte i (from 1) of the stream the device sends: the samples 1, 2, 3, ...
\* as little-endian 32-bit integers
DeviceByte(i) ==
    LET k == (i - 1) \div 4 + 1
        j == (i - 1) % 4
    IN  IF j = 0 THEN k % 256
        ELSE IF j = 1 THEN (k \div 256) % 256
        ELSE 0

DeviceBytes(from, n) == [i \in 1..n |-> DeviceByte(from + i - 1)]

\* the complete samples of one read, in the order of the bytes
Frames(raw) ==
    [i \in 1..(Len(raw) \div RT_SAMPLE) |->
        Unpack(SubSeq(raw, RT_SAMPLE * (i - 1) + 1, RT_SAMPLE * i))]

\* no fault in a save_to_csv call: <<writeFails, openFails, headerFails,
\* bytes read by a timer tick while the error dialog is open>>
NoFault == <<FALSE, FALSE, FALSE, 0>>

\* The fields update_plot reads and changes, as one record
Plot ==
    [ignore_initial_data |-> ignore_initial_data, data |-> data,
     time_values |-> time_values, inq |-> inq, arrived |-> arrived,
     inq_early |-> inq_early, rt_read |-> rt_read, pushed |-> pushed,
     expected |-> expected, plotted |-> plotted, tainted |-> tainted,
     port_errors |-> port_errors, late_read |-> late_read, sink |-> Sink]

\* "if self.ignore_initial_data: ... if elapsed >= self.initial_delay": the
\* settle filter is off, or is switched off by this tick
Settled_Always(ignore, elapsed) == TRUE
Settled(ignore, elapsed) == ~ignore \/ elapsed >= initial_delay

\* self.data.append(sample); self.time_values.append(len(self.data))
PushSample_NoIndex(d, tv, sample) ==
    [data |-> DequeAppend(d, sample, buffer_size), time_values |-> tv]
PushSample(d, tv, sample) ==
    LET d1 == DequeAppend(d, sample, buffer_size)
    IN  [data |-> d1, time_values |-> DequeAppend(tv, Len(d1), buffer_size)]

RECURSIVE UpdatePlot(_, _, _, _)
RECURSIVE SampleLoop(_, _, _, _, _)

\* show_error(message) called from a timer callback: QMessageBox.critical
\* runs a modal dialog, and the event loop of the dialog keeps delivering the
\* timer events.  n: the bytes that arrive while the dialog is open and are
\* found by a tick of plot_timer before the dialog is dismissed (0: no tick
\* finds a sample).  That tick is a complete call of update_plot, with no
\* injected fault.
ShowError(p, now, n) ==
    IF n = 0
    THEN p
    ELSE UpdatePlot([p EXCEPT !.inq = @ \o DeviceBytes(p.arrived + 1, n),
                              !.arrived = @ + n],
                    now, FALSE, [i \in 1..(n \div RT_SAMPLE) |-> NoFault])

\* save_to_csv(sample) at time now.  f = <<writeFails, openFails,
\* headerFails, n>>.  writeFails: writerow raises an I/O error (writing to a
\* closed file raises as well); openFails, headerFails: the faults of the
\* recovery; n: see ShowError.
SaveToCsv(p, now, sample, f) ==
    IF p.sink.csv_writer = 0
    THEN p
    ELSE LET s0 == [p.sink EXCEPT !.late_attempt = @ \/ p.sink.recovery_failed]
         IN  IF s0.files[s0.csv_writer].closed \/ f[1]
             THEN LET s1 == [s0 EXCEPT !.faults = IF f[1] THEN @ + 1 ELSE @]
                      q == ShowError([p EXCEPT !.sink = s1], now, f[4])
                      r == InitCsvFile(q.sink, now, f[2], f[3])
                      r1 == [r EXCEPT !.recovery_failed = @ \/ f[2] \/ f[3]]
                  IN  [q EXCEPT !.sink = IF r.raised
                                         THEN [r1 EXCEPT !.csv_writer = 0]
                                         ELSE r1]
             ELSE [p EXCEPT !.sink =
                     [s0 EXCEPT !.files[s0.csv_writer] =
                          WriteRow(@, [ts |-> now, value |-> sample])]]

\* for i in range(0, len(raw_data), 4): ... from the i-th sample of the read
\* on, breaking at an incomplete sample; fs[i] are the faults injected into
\* the i-th save_to_csv
SampleLoop(p, raw, i, now, fs) ==
    IF RT_SAMPLE * i > Len(raw)
    THEN p
    ELSE LET sample == Unpack(SubSeq(raw, RT_SAMPLE * (i - 1) + 1, RT_SAMPLE * i))
             pair == PushSample(p.data, p.time_values, sample)
             p1 == [p EXCEPT !.data = pair.data,
                             !.time_values = pair.time_values,
                             !.pushed = Append(@, sample)]
         IN  SampleLoop(SaveToCsv(p1, now, sample, fs[i]), raw, i + 1, now, fs)

\* update_plot at time now.  portFails: self.ser.in_waiting raises
\* SerialException; the exception is caught at the end of update_plot
\* (except Exception: update_status).  fs: the faults injected into the
\* save_to_csv calls of this read.
UpdatePlot(p, now, portFails, fs) ==
    LET elapsed == now - start_time
        settled == Settled(p.ignore_initial_data, elapsed)
        p0 == [p EXCEPT !.ignore_initial_data = @ /\ ~settled,
                        !.late_read = @ \/ p.port_errors > 0]
    IN  IF portFails
        THEN [p0 EXCEPT !.port_errors = @ + 1]
        ELSE IF ~settled
        THEN \* still settling: drain when 4 bytes or more are waiting
             IF Len(p0.inq) >= RT_SAMPLE
             THEN [p0 EXCEPT !.inq = <<>>, !.inq_early = 0]
             ELSE p0
        ELSE IF Len(p0.inq) >= RT_SAMPLE
        THEN LET raw == p0.inq
                 \* ser.read(ser.in_waiting) empties the port; raw_data is a
                 \* local, dropped when update_plot returns
                 p1 == [p0 EXCEPT !.inq = <<>>,
                                  !.inq_early = 0,
                                  !.rt_read = @ \o raw,
                                  !.expected = @ \o Frames(raw),
                                  !.tainted = @ \/ p0.inq_early > 0]
                 p2 == SampleLoop(p1, raw, 1, now, fs)
             IN  \* plot_curve.setData(x=list(time_values), y=list(data))
                 [p2 EXCEPT !.plotted = <<[x |-> p2.time_values,
                                           y |-> p2.data]>>]
        ELSE p0

(***************************************************************************)
(* RealTimePlot: construction, callbacks, closeEvent                       *)
(***************************************************************************)
SetSink(s) ==
    /\ csv_file' = s.csv_file
    /\ csv_writer' = s.csv_writer
    /\ file_start_time' = s.file_start_time
    /\ files' = s.files
    /\ faults' = s.faults
    /\ recovery_failed' = s.recovery_failed
    /\ late_attempt' = s.late_attempt
    /\ reopened' = s.reopened

SetPlot(p) ==
    /\ ignore_initial_data' = p.ignore_initial_data
    /\ data' = p.data
    /\ time_values' = p.time_values
    /\ inq' = p.inq
    /\ arrived' = p.arrived
    /\ inq_early' = p.inq_early
    /\ rt_read' = p.rt_read
    /\ pushed' = p.pushed
    /\ expected' = p.expected
    /\ plotted' = p.plotted
    /\ tainted' = p.tainted
    /\ port_errors' = p.port_errors
    /\ late_read' = p.late_read
    /\ SetSink(p.sink)

RTInit ==
    /\ rt_pc = "new"
    /\ rt_clock = 0
    /\ start_time = 0
    /\ ser_open = FALSE
    /\ plot_timer = "none"
    /\ file_timer = "none"
    /\ ignore_initial_data = TRUE
    /\ data = <<>>
    /\ time_values = <<>>
    /\ inq = <<>>
    /\ csv_file = 0
    /\ csv_writer = 0
    /\ file_start_time = <<>>
    /\ files = <<>>
    /\ arrived = 0
    /\ inq_early = 0
    /\ rt_read = <<>>
    /\ pushed = <<>>
    /\ expected = <<>>
    /\ plotted = <<>>
    /\ tainted = FALSE
    /\ port_errors = 0
    /\ late_read = FALSE
    /\ faults = 0
    /\ recovery_failed = FALSE
    /\ late_attempt = FALSE
    /\ reopened = FALSE
    /\ last_check = <<>>
    /\ advances = 0

\* closeEvent on c = [plot_timer, file_timer, ser_open, sink].  The three
\* stop() calls come first: when the timers were never created the first one
\* raises AttributeError and the rest of the try block is skipped.
\* serFails: self.ser.close() raises, which skips csv_file.close().
CloseEvent(c, serFails) ==
    IF c.plot_timer = "none"
    THEN c
    ELSE LET c1 == [c EXCEPT !.plot_timer = "stopped", !.file_timer = "stopped"]
         IN  IF c1.ser_open /\ serFails
             THEN c1
             ELSE [c1 EXCEPT !.ser_open = FALSE,
                             !.sink.files = CloseHeld(c1.sink)]

\* __init__: start_time, setup_file_system (which creates the first CSV
\* file), the two deques, the serial port and the timers.  serialFails:
\* serial.Serial raises SerialException; setup_serial re-raises it, __init__
\* catches it and calls self.close(), which runs closeEvent.
RT_Construct(openFails, headerFails, serialFails) ==
    /\ rt_pc = "new"
    /\ start_time' = rt_clock
    /\ ignore_initial_data' = TRUE
    /\ data' = <<>>
    /\ time_values' = <<>>
    /\ inq' = <<>>
    /\ LET s == InitCsvFile([Sink EXCEPT !.csv_file = 0, !.csv_writer = 0,
                                         !.file_start_time = <<>>],
                            rt_clock, openFails, headerFails)
       IN  IF serialFails
           THEN LET c == CloseEvent([plot_timer |-> "none",
                                     file_timer |-> "none",
                                     ser_open |-> FALSE, sink |-> s], FALSE)
                IN  /\ rt_pc' = "closed"
                    /\ ser_open' = c.ser_open
                    /\ plot_timer' = c.plot_timer
                    /\ file_timer' = c.file_timer
                    /\ SetSink(c.sink)
           ELSE /\ rt_pc' = "running"
                /\ ser_open' = TRUE
                /\ plot_timer' = "active"
                /\ file_timer' = "active"
                /\ SetSink(s)
    /\ UNCHANGED <<rt_clock, arrived, inq_early, rt_read, pushed, expected,
                   plotted, tainted, port_errors, late_read, last_check,
                   advances>>
    /\ UNCHANGED hzvars

\* time passes between two callbacks
RT_Advance(dt) ==
    /\ rt_pc # "new"
    /\ rt_clock' = rt_clock + dt
    /\ advances' = advances + 1
    /\ UNCHANGED <<plotvars, sinkvars, lifevars, last_check>>
    /\ UNCHANGED hzvars

\* the device sends n more bytes; they wait in the port
RT_Arrive(n) ==
    /\ ser_open
    /\ inq' = inq \o DeviceBytes(arrived + 1, n)
    /\ arrived' = arrived + n
    /\ inq_early' = IF rt_clock - start_time < initial_delay
                    THEN Len(inq) + n
                    ELSE inq_early
    /\ UNCHANGED <<ignore_initial_data, data, time_values, rt_read, pushed,
                   expected, plotted, tainted, port_errors, late_read>>
    /\ UNCHANGED <<sinkvars, lifevars, rt_clock, advances, last_check>>
    /\ UNCHANGED hzvars

\* update_plot, the callback of plot_timer; fs: the faults injected into the
\* save_to_csv calls of this read; portFails: the port raises
RT_UpdatePlot(fs, portFails) ==
    /\ plot_timer = "active"
    \* reading a port that is not open raises as well
    /\ SetPlot(UpdatePlot(Plot, rt_clock, portFails \/ ~ser_open, fs))
    /\ UNCHANGED <<lifevars, rt_clock, advances, last_check>>
    /\ UNCHANGED hzvars

\* check_file_rotation, the callback of file_timer
RT_CheckFileRotation(openFails, headerFails) ==
    /\ file_timer = "active"
    /\ IF ignore_initial_data
       THEN UNCHANGED <<sinkvars, last_check>>
       ELSE /\ last_check' = <<rt_clock>>
            /\ IF RotationDue(file_start_time, rt_clock)
               THEN SetSink(InitCsvFile(Sink, rt_clock, openFails, headerFails))
               ELSE UNCHANGED sinkvars
    /\ UNCHANGED <<plotvars, lifevars, rt_clock, advances>>
    /\ UNCHANGED hzvars

\* closeEvent, when the user closes the window
RT_CloseEvent(serFails) ==
    /\ rt_pc = "running"
    /\ rt_pc' = "closed"
    /\ LET c == CloseEvent([plot_timer |-> plot_timer, file_timer |-> file_timer,
                            ser_open |-> ser_open, sink |-> Sink], serFails)
       IN  /\ plot_timer' = c.plot_timer
           /\ file_timer' = c.file_timer
           /\ ser_open' = c.ser_open
           /\ SetSink(c.sink)
    /\ UNCHANGED <<plotvars, start_time, rt_clock, advances, last_check>>
    /\ UNCHANGED hzvars

(***************************************************************************)
(* Runs of RealTimePlot with I/O faults, arbitrary arrival and timing      *)
(***************************************************************************)
FaultChoices ==
    {NoFault, <<TRUE, FALSE, FALSE, 0>>, <<TRUE, TRUE, FALSE, 0>>,
     <<TRUE, FALSE, TRUE, 0>>, <<FALSE, TRUE, FALSE, 0>>,
     <<FALSE, FALSE, TRUE, 0>>}

NoFaults(n) == [i \in 1..n |-> NoFault]

PlotConstruct ==
    \E o, h \in BOOLEAN : ~(o /\ h) /\ RT_Construct(o, h, FALSE)

PlotAdvance ==
    \E dt \in ClockJumps : advances < MaxAdvances /\ RT_Advance(dt)

PlotArrive ==
    \E n \in 1..(MaxArrive - arrived) : RT_Arrive(n)

PlotUpdate ==
    \E fs \in [1..(Len(inq) \div RT_SAMPLE) -> FaultChoices] :
        /\ RT_UpdatePlot(fs, FALSE)
        /\ faults' <= MaxIOFaults

PlotRotation ==
    \E o, h \in BOOLEAN :
        /\ ~(o /\ h)
        /\ RT_CheckFileRotation(o, h)
        /\ faults' <= MaxIOFaults

PlotInit == HZInit /\ period = 0 /\ RTInit

PlotNext ==
    PlotConstruct \/ PlotAdvance \/ PlotArrive \/ PlotUpdate \/ PlotRotation

SpecPlot == PlotInit /\ [][PlotNext]_vars

(***************************************************************************)
(* Runs of RealTimePlot with write faults whose error dialog stays open    *)
(* while the timers keep firing; the device sends whole samples.           *)
(***************************************************************************)
DialogChoices ==
    FaultChoices \cup {<<TRUE, FALSE, FALSE, RT_SAMPLE>>,
                       <<TRUE, TRUE, FALSE, RT_SAMPLE>>,
                       <<TRUE, FALSE, TRUE, RT_SAMPLE>>}

DialogConstruct == RT_Construct(FALSE, FALSE, FALSE)

DialogArrive ==
    \E k \in 1..MaxDialogSamples :
        /\ arrived + RT_SAMPLE * k <= RT_SAMPLE * MaxDialogSamples
        /\ RT_Arrive(RT_SAMPLE * k)

DialogUpdate ==
    \E fs \in [1..(Len(inq) \div RT_SAMPLE) -> DialogChoices] :
        /\ RT_UpdatePlot(fs, FALSE)
        /\ faults' <= MaxIOFaults
        /\ arrived' <= RT_SAMPLE * MaxDialogSamples

DialogNext ==
    DialogConstruct \/ PlotAdvance \/ DialogArrive \/ DialogUpdate
        \/ PlotRotation

SpecDialog == PlotInit /\ [][DialogNext]_vars

(***************************************************************************)
(* Life cycle runs of RealTimePlot: the serial port may fail to open, the  *)
(* port may raise while it is read, the window is closed; no sink fault.   *)
(***************************************************************************)
LifeConstruct == \E serialFails \in BOOLEAN : RT_Construct(FALSE, FALSE, serialFails)

LifeUpdate ==
    \E portFails \in BOOLEAN :
        /\ RT_UpdatePlot(NoFaults(Len(inq) \div RT_SAMPLE), portFails)
        /\ port_errors' <= MaxPortErrors

LifeRotation == RT_CheckFileRotation(FALSE, FALSE)

LifeClose == \E serFails \in BOOLEAN : RT_CloseEvent(serFails)

LifeNext ==
    LifeConstruct \/ PlotAdvance \/ PlotArrive \/ LifeUpdate \/ LifeRotation
        \/ LifeClose

SpecLife == PlotInit /\ [][LifeNext]_vars

(***************************************************************************)
(* Rolling runs of RealTimePlot: no fault, the device keeps sending after  *)
(* the settle delay and every read finds one, two or ten samples.          *)
(***************************************************************************)
RollBatches == {1, 2, 10}

RollConstruct == RT_Construct(FALSE, FALSE, FALSE)

RollAdvance ==
    /\ rt_clock - start_time < initial_delay
    /\ RT_Advance(initial_delay)

RollArrive ==
    \E k \in RollBatches :
        /\ ~ignore_initial_data
        /\ Len(inq) = 0
        /\ arrived + RT_SAMPLE * k <= RT_SAMPLE * (buffer_size + MaxOverflow)
        /\ RT_Arrive(RT_SAMPLE * k)

RollUpdate == RT_UpdatePlot(NoFaults(Len(inq) \div RT_SAMPLE), FALSE)

RollNext == RollConstruct \/ RollAdvance \/ RollArrive \/ RollUpdate

SpecRoll == PlotInit /\ [][RollNext]_vars

(***************************************************************************)
(* Framing runs of HZanalise.main: arbitrary bytes in arbitrary chunks,    *)
(* decode faults injected.                                                 *)
(***************************************************************************)
\* every byte sequence of length 0..n
RECURSIVE ChunksUpTo(_)
ChunksUpTo(n) ==
    IF n = 0 THEN {<<>>}
    ELSE LET S == ChunksUpTo(n - 1)
         IN  S \cup {Append(c, b) : c \in {x \in S : Len(x) = n - 1}, b \in Bytes}

FrameRead ==
    \E chunk \in ChunksUpTo(MaxStream - Len(received)) : HZ_Read(chunk)

FrameDecode ==
    \E fail \in BOOLEAN, dt \in ClockSteps :
        /\ fail => Cardinality(failed) < MaxFaults
        /\ hz_clock + dt <= MaxClock
        /\ HZ_Decode(fail, dt)

FrameInit == HZInit /\ period = 0 /\ RTInit

FrameNext == FrameRead \/ FrameDecode \/ HZ_DrainEnd \/ HZ_Sleep

SpecFrame == FrameInit /\ [][FrameNext]_vars

(***************************************************************************)
(* Rate runs of HZanalise.main: a device that sends one sample every       *)
(* `period` milliseconds, read one or several samples at a time.           *)
(***************************************************************************)
\* samples delivered by one read
RateBatches == {1, 3}

ZeroChunk(n) == [i \in 1..n |-> 0]

RateRead ==
    \E k \in RateBatches :
        /\ Len(received) + SAMPLE_SIZE * k <= SAMPLE_SIZE * MaxRateSamples
        /\ HZ_Read(ZeroChunk(SAMPLE_SIZE * k))

RateDecode == HZ_Decode(FALSE, period)

RateInit == HZInit /\ period \in Periods /\ RTInit

RateExit == \E cause \in {"interrupt", "error"} : HZ_Exit(cause)

RateNext == RateRead \/ RateDecode \/ HZ_DrainEnd \/ HZ_Sleep \/ RateExit

SpecRate == RateInit /\ [][RateNext]_vars

(***************************************************************************)
(* Claims about HZanalise.main                                             *)
(***************************************************************************)
\* the i-th 4-byte window of the stream
WindowOf(stream, i) == SubSeq(stream, SAMPLE_SIZE * (i - 1) + 1, SAMPLE_SIZE * i)

\* C1: whatever the split of the byte stream into non-empty reads, once the
\* drain loop has finished the values decoded so far, and the bytes carried
\* over, are those of a single read of the whole stream received so far; with
\* no decode fault a stream of N*4 bytes gives exactly its N integers in order.
C1_SplitIndependent ==
    hz_pc \in {"sleep", "read"} =>
        /\ decoded = SingleRead(received, failed).samples
        /\ buffer = SingleRead(received, failed).rest
        /\ failed = {} =>
              /\ Len(decoded) = Len(received) \div SAMPLE_SIZE
              /\ \A i \in 1..Len(decoded) :
                    decoded[i] = Unpack(WindowOf(received, i))

\* C1 witness: a 12-byte stream that arrived in several reads, one of them
\* ending inside a sample, and gave its three integers
C1_Witness ==
    /\ hz_pc = "sleep"
    /\ carried
    /\ failed = {}
    /\ received = <<255, 0, 0, 0, 0, 255, 0, 0, 255, 255, 255, 255>>
    /\ decoded = <<255, 65280, -1>>

\* C3: every time the drain loop has finished, the carry-over buffer holds
\* between 0 and 3 bytes.
C3_LeftoverBounded ==
    hz_pc \in {"sleep", "read"} => Len(buffer) \in 0..(SAMPLE_SIZE - 1)

\* C3 witness: the loop finished after taking a window, with 3 bytes left
C3_Witness ==
    /\ hz_pc = "sleep"
    /\ windows >= 1
    /\ Len(buffer) = 3

\* the j-th window, in stream order, whose decoding did not raise
GoodWindow(j) ==
    CHOOSE i \in 1..windows :
        /\ i \notin failed
        /\ Cardinality({k \in 1..i : k \notin failed}) = j

\* C4: a window whose decoding raises is discarded and nothing else: each
\* window taken, failed or not, advances the offset by exactly 4 bytes, a
\* failed window gives no sample, no count and no timestamp, and the other
\* windows decode to the values they have in the stream.
C4_FailureIsolated ==
    /\ Len(received) = SAMPLE_SIZE * windows + Len(buffer)
    /\ buffer = Drop(received, SAMPLE_SIZE * windows)
    /\ failed \subseteq 1..windows
    /\ sample_count = windows - Cardinality(failed)
    /\ Len(decoded) = sample_count
    /\ Len(stamps) = sample_count
    /\ \A j \in 1..Len(decoded) :
          decoded[j] = Unpack(WindowOf(received, GoodWindow(j)))

\* C4 witness: the second of three windows failed, the other two decoded
C4_Witness ==
    /\ failed = {2}
    /\ windows = 3
    /\ received = <<255, 0, 0, 0, 0, 255, 0, 0, 255, 255, 255, 255>>
    /\ decoded = <<255, -1>>
    /\ sample_count = 2

\* C7: a printed rate is (entries - 1) / (newest - oldest) of the timestamp
\* window at that sample, as a fraction in Hz; the rate of a window of at
\* least 2 entries is that fraction when newest - oldest > 0 and 0 when it is
\* 0; 1000 samples stamped exactly 100 ms apart give 10 Hz.
C7_Rate ==
    /\ status # <<>> =>
          LET n == status[1].total
              cnt == Min(n, window_size)
              newest == stamps[n]
              oldest == stamps[n - cnt + 1]
          IN  /\ cnt >= 2
              /\ newest - oldest > 0 =>
                    status[1].rate = <<(cnt - 1) * 1000, newest - oldest>>
              /\ newest - oldest = 0 => status[1].rate[1] = 0
              /\ (period = 100 /\ n = 1000) =>
                    status[1].rate[1] = 10 * status[1].rate[2]
    /\ Len(time_window) >= 2 =>
          LET n == Len(stamps)
              cnt == Min(n, window_size)
              elapsed == stamps[n] - stamps[n - cnt + 1]
          IN  /\ elapsed > 0 => Rate(time_window) = <<(cnt - 1) * 1000, elapsed>>
              /\ elapsed = 0 => Rate(time_window)[1] = 0

\* C7 witness: the line printed at the 1000th of 1000 samples 100 ms apart
C7_Witness ==
    /\ period = 100
    /\ status # <<>>
    /\ status[1].total = 1000
    /\ status[1].rate = <<999000, 99900>>

\* C7 witness of the other case: a window of 3 entries with equal timestamps
C7_WitnessZero ==
    /\ Len(time_window) = 3
    /\ time_window[3] = time_window[1]
    /\ Rate(time_window) = <<0, 1>>

\* C8: after n decoded samples the timestamp window holds min(n, 1000)
\* timestamps, those of the most recent samples in decoding order.
C8_Window ==
    LET n == Len(decoded)
        cnt == Min(n, window_size)
    IN  /\ sample_count = n
        /\ Len(stamps) = n
        /\ Len(time_window) = cnt
        /\ time_window = SubSeq(stamps, n - cnt + 1, n)

\* C8 witness: 1001 samples decoded, the last one in the middle of a read of
\* several samples, the oldest timestamp evicted
C8_Witness ==
    /\ sample_count = window_size + 1
    /\ hz_pc = "drain"
    /\ Len(buffer) >= SAMPLE_SIZE
    /\ period = 100
    /\ time_window[1] = 200
    /\ time_window[window_size] = 100100

\* C21: before and after every step the bytes received are 4 bytes for every
\* sample counted and every window discarded for a decode failure, plus the bytes of
\* the carry-over buffer, which are the last bytes received; sample_count is
\* the number of values decoded.  In every step that decodes a window the
\* value is that of the next 4 bytes of the stream not yet taken (no byte is
\* decoded twice or skipped) and the count grows by one; a failed window
\* leaves the count alone; and a read that returns no byte leaves the buffer,
\* sample_count and the timestamp window as they were.
C21_Conserved ==
    /\ Len(received) = SAMPLE_SIZE * (sample_count + Cardinality(failed))
                          + Len(buffer)
    /\ buffer = Drop(received, Len(received) - Len(buffer))
    /\ sample_count = Len(decoded)

C21_Step ==
    /\ C21_Conserved /\ C21_Conserved'
    /\ windows' = windows + 1 =>
          /\ received' = received
          /\ buffer' = Drop(buffer, SAMPLE_SIZE)
          /\ IF (windows + 1) \in failed'
             THEN UNCHANGED <<sample_count, decoded, time_window>>
             ELSE /\ sample_count' = sample_count + 1
                  /\ decoded' = Append(decoded,
                                       Unpack(WindowOf(received, windows + 1)))
    /\ (hz_pc = "read" /\ hz_pc' # "closed" /\ idle') =>
          /\ received' = received
          /\ UNCHANGED <<buffer, sample_count, time_window, decoded, windows>>

C21_ByteConservation == [][C21_Step]_vars

\* C21 witness: 11 bytes were received, of the two windows taken the second
\* failed, so one sample is counted and 3 bytes are carried over, and the
\* read of this iteration returned no byte
C21_Witness ==
    /\ idle
    /\ hz_pc = "sleep"
    /\ Len(received) = 11
    /\ failed = {2}
    /\ sample_count = 1
    /\ Len(buffer) = 3

\* C18: the time between two consecutive status lines is at most the cadence
\* of one second plus one loop iteration, whatever the rate of the samples.
C18_Cadence ==
    status # <<>> => status[1].gap <= PRINT_PERIOD + HZ_TIMEOUT + HZ_SLEEP

(***************************************************************************)
(* Claims about RealTimePlot                                               *)
(***************************************************************************)
\* C2: the samples appended to the display buffer and written to the CSV are
\* those of a single read of all the bytes read once RUNNING: the bytes of a
\* read after its last complete sample are carried over to the next read.
C2_CarryOver ==
    pushed = SingleRead(rt_read, {}).samples

\* C5: no sample is decoded from a byte that arrived before the settle delay
\* had elapsed.
C5_SettleDiscard ==
    ~tainted

\* C6: once buffer_size + K samples have been pushed (K >= 0), data holds the
\* last buffer_size pushed values in order and entry j of time_values is the
\* index of the sample at entry j of data.
C6_Rolling ==
    Len(pushed) >= buffer_size =>
        LET K == Len(pushed) - buffer_size
        IN  /\ data = SubSeq(pushed, K + 1, Len(pushed))
            /\ Len(time_values) = buffer_size
            /\ \A j \in 1..buffer_size : time_values[j] = K + j

\* C9: once a write has failed and the file creation that follows it has
\* failed too, the sink is disabled (csv_writer is None) and no later call
\* attempts a write or a file creation.
C9_SinkDisabled ==
    recovery_failed => (csv_writer = 0 /\ ~late_attempt)

\* the values of the records of files i.. in order
RECURSIVE RecordsFrom(_, _)
RecordsFrom(fl, i) ==
    IF i > Len(fl) THEN <<>>
    ELSE [j \in 1..Len(fl[i].rows) |-> fl[i].rows[j].value]
            \o RecordsFrom(fl, i + 1)

\* C10: at most one CSV file is open at any time; and as long as no I/O
\* fault has occurred: the file held is the last one created and the only one
\* open, consecutive files were created at least file_duration apart (one
\* file per boundary), after a rotation check the file held is younger than
\* file_duration (the check created a file when one was due), and the
\* records of the files, in order, are the samples passed to save_to_csv.
C10_Rotation ==
    /\ Cardinality({i \in 1..Len(files) : ~files[i].closed}) <= 1
    /\ (faults = 0 /\ rt_pc = "running") =>
          /\ Len(files) >= 1
          /\ csv_file = Len(files)
          /\ csv_writer = csv_file
          /\ \A i \in 1..Len(files) :
                /\ files[i].closed <=> i < Len(files)
                /\ files[i].header
          /\ file_start_time = <<files[Len(files)].name>>
          /\ \A i \in 1..(Len(files) - 1) :
                files[i + 1].name - files[i].name >= file_duration
          /\ last_check # <<>> =>
                last_check[1] - file_start_time[1] < file_duration
          /\ RecordsFrom(files, 1) = pushed

\* C10 witness: a rotation check has just replaced the first file, which is
\* closed and keeps its record; a record was written to the new file too
C10_Witness ==
    /\ faults = 0
    /\ Len(files) = 2
    /\ files[1].closed /\ ~files[2].closed
    /\ Len(files[1].rows) = 1
    /\ Len(files[2].rows) = 1
    /\ files[2].name - files[1].name >= file_duration
    /\ last_check = <<files[2].name>>

\* C11: no record is written to a file whose age is file_duration or more: the
\* timestamp of every record of a file created with its header (the creation
\* that sets file_start_time) is less than file_duration after the creation
\* time of that file.
C11_FreshFile ==
    \A i \in 1..Len(files) :
        files[i].header =>
            \A j \in 1..Len(files[i].rows) :
                files[i].rows[j].ts - files[i].name < file_duration

\* C12: between two save_to_csv calls every record written is on the disk: no
\* file has a record that is held only in the buffer of its file object.
C12_Persisted ==
    \A i \in 1..Len(files) : files[i].synced = Len(files[i].rows)

\* C13: init_csv_file never opens, and so never truncates, a file that had
\* been created before: every creation makes a file of a new name.
C13_NeverReopened ==
    ~reopened

\* C14: once closeEvent has run, also from a failed __init__, every CSV file
\* is closed and the serial port is not open; once HZanalise.main has left its
\* loop its serial port is not open.
C14_Released ==
    /\ rt_pc = "closed" =>
          /\ ~ser_open
          /\ \A i \in 1..Len(files) : files[i].closed
    /\ hz_pc = "closed" => ~hz_ser_open

\* C15: once the port has raised in update_plot no timer tick runs update_plot
\* again and the port is not accessed again; once the port has raised in
\* HZanalise.main the loop has been left.
C15_Fatal ==
    /\ port_errors > 0 => (plot_timer # "active" /\ ~late_read)
    /\ hz_exit = "error" => hz_pc = "closed"

C17_HeaderFirst ==
    \A i \in 1..Len(files) : Len(files[i].rows) > 0 => files[i].header

\* C19: between two callbacks data and time_values have the same length, at
\* most buffer_size, and the two lists last handed to the plot have the same
\* length and are the contents of time_values and data when they were handed.
C19_PairConsistent ==
    /\ Len(data) = Len(time_values)
    /\ Len(data) <= buffer_size
    /\ plotted # <<>> =>
          /\ Len(plotted[1].x) = Len(plotted[1].y)
          /\ plotted[1].x = time_values
          /\ plotted[1].y = data

\* C19 witness: the display buffer is full, samples have been evicted, and
\* the full pair has been handed to the plot
C19_Witness ==
    /\ Len(pushed) > buffer_size
    /\ Len(data) = buffer_size
    /\ Len(time_values) = buffer_size
    /\ plotted # <<>>
    /\ Len(plotted[1].y) = buffer_size

\* the records of the files, file by file
RowsOf(fl) == [i \in 1..Len(fl) |-> fl[i].rows]

\* C20: in every step of RealTimePlot: the life cycle moves only from new to
\* running or closed and from running to closed; ignore_initial_data changes
\* only from TRUE to FALSE, in a step where the timers are active and the
\* elapsed time is at least initial_delay; a step that starts and ends in
\* SETTLING appends no sample, writes no record and creates no file; and a
\* step taken once closeEvent has run reads nothing from the port, appends no
\* sample, writes no record, creates no file and checks no rotation.
C20_Step ==
    /\ rt_pc' # rt_pc =>
          <<rt_pc, rt_pc'>> \in {<<"new", "running">>, <<"new", "closed">>,
                                 <<"running", "closed">>}
    /\ ignore_initial_data' # ignore_initial_data =>
          /\ ignore_initial_data /\ ~ignore_initial_data'
          /\ rt_pc = "running" /\ plot_timer = "active"
          /\ rt_clock - start_time >= initial_delay
    /\ (rt_pc = "running" /\ ignore_initial_data /\ ignore_initial_data') =>
          /\ UNCHANGED <<data, time_values, pushed, rt_read, expected, plotted,
                         csv_file, csv_writer, file_start_time, last_check>>
          /\ RowsOf(files') = RowsOf(files)
    /\ rt_pc = "closed" =>
          /\ UNCHANGED <<data, time_values, pushed, rt_read, expected, plotted,
                         csv_file, csv_writer, file_start_time, last_check,
                         files, ignore_initial_data, port_errors, late_read>>
          /\ Len(inq') >= Len(inq)

C20_Lifecycle == [][C20_Step]_vars

\* C20 witness: the window was closed after samples had been processed; since
\* then time has passed beyond the rotation interval and bytes are waiting in
\* the port, unread
C20_Witness ==
    /\ rt_pc = "closed"
    /\ ~ignore_initial_data
    /\ Len(pushed) >= 1
    /\ Len(inq) >= RT_SAMPLE
    /\ file_start_time # <<>>
    /\ rt_clock - file_start_time[1] >= file_duration

====
